---- MODULE Spec2Model ----
(***************************************************************************)
(* A model of src/index.js: the pawn board (grid + registry), the move     *)
(* rule engine getPawnAllowedMoves, the copy-on-write move executor        *)
(* movePawn and the in-place operations placePawn, addPawn, removePawn.    *)
(*                                                                         *)
(* JavaScript objects that the code shares or copies are kept in a heap:   *)
(* `regs` holds the registry objects (board.pawns), `rows` the row arrays  *)
(* of the grids, and a board object holds the addresses of its registry    *)
(* and of its rows.  Pawn records are never written after they are built   *)
(* (movePawn builds a new record), so they are modelled as values.  A      *)
(* registry is read through its own properties: the ids are strings that   *)
(* name no property of Object.prototype.                                   *)
(***************************************************************************)
EXTENDS Integers, Sequences, FiniteSets, TLC

VARIABLES
  boards,   \* caller's variables: slot -> board object [width, height, pawns, grid]
  regs,     \* heap: registry address -> (id -> pawn record)
  rows,     \* heap: row address -> (col -> id or Null)
  last,     \* the latest call: operation, arguments, error thrown, value returned
  calls,    \* number of calls made so far
  frames    \* movePawn calls in progress: thread -> its position and local variables

vars == <<boards, regs, rows, last, calls, frames>>

(***************************************************************************)
(* Bounds of the model.                                                    *)
(***************************************************************************)
BoardWidth == 2      \* width given to createEmptyBoard
BoardHeight == 3     \* height given to createEmptyBoard
NumSlots == 2        \* board variables the caller keeps
MaxCalls == 3        \* calls in one run
MaxClock == 1        \* Date.now() values
MaxRand == 2         \* Math.random() values
MovesWidth == 3      \* width of the board the rule engine is asked about
MovesHeight == 3     \* height of the board the rule engine is asked about
MaxPawns == 3        \* pawns on the board the rule engine is asked about
ChainCols == 2       \* columns whose pawns a chain of movePawn calls moves
ChainPawns == 2      \* pawns on the board a chain of movePawn calls starts from
NumThreads == 2      \* movePawn calls whose statements interleave

(***************************************************************************)
(* Values.                                                                 *)
(***************************************************************************)
\* JavaScript null in a grid cell.  Ids are strings, modelled as tuples.
Null == <<"null">>
\* The empty string: an id that is falsy in `if (!targetId)`.
EmptyId == <<>>

Colors == {"white", "black"}
Slots == 1..NumSlots
\* address of the clone of a movePawn whose result the caller drops
Scratch == NumSlots + 1

\* ids a caller hands to placePawn: "" and "W1" (the first id of createInitialBoard)
PlaceIds == {EmptyId, <<"W", 1>>}

Pos(r, c) == [row |-> r, col |-> c]

NoPawn == [id |-> Null, color |-> "none", position |-> Pos(-1, -1), hasMoved |-> FALSE]

\* JavaScript truthiness of a cell value or an id: null and "" are falsy
Truthy(x) == x /= Null /\ x /= EmptyId

(***************************************************************************)
(* Reading a board through the heap.                                       *)
(***************************************************************************)
Heap == [regs |-> regs, rows |-> rows]

\* board.pawns
PawnsOf(H, b) == H.regs[b.pawns]
\* board.grid[r][c]
Cell(H, b, r, c) == H.rows[b.grid[r]][c]
\* `board.pawns[id]` is defined (an own property)
HasPawn(H, b, id) == id \in DOMAIN PawnsOf(H, b)

\* src/index.js:1-8
createEmptyGrid(width, height) ==
  [i \in 0..(height - 1) |-> [j \in 0..(width - 1) |-> Null]]

\* src/index.js:91-93
isValidPosition(b, row, col) ==
  row >= 0 /\ row < b.height /\ col >= 0 /\ col < b.width

\* own-property update and deletion of a JavaScript object used as a map
Put(f, k, v) == [x \in (DOMAIN f) \cup {k} |-> IF x = k THEN v ELSE f[x]]
Del(f, k) == [x \in (DOMAIN f) \ {k} |-> f[x]]

\* `board.grid[row][col] = v` in heap H
SetCell(H, b, row, col, v) ==
  [H EXCEPT !.rows = [@ EXCEPT ![b.grid[row]] = [@ EXCEPT ![col] = v]]]
\* `board.pawns[id] = pawn` in heap H
SetPawn(H, b, id, pawn) ==
  [H EXCEPT !.regs = [@ EXCEPT ![b.pawns] = Put(@, id, pawn)]]
\* `delete board.pawns[id]` in heap H
DeletePawn(H, b, id) ==
  [H EXCEPT !.regs = [@ EXCEPT ![b.pawns] = Del(@, id)]]

(***************************************************************************)
(* placePawn (src/index.js:21-35).  The two throws are named after the     *)
(* error kinds: "Invalid position to place pawn" is OutOfBounds and        *)
(* "Position is already occupied" is OccupiedSquare.                       *)
(***************************************************************************)
\* a variant of placePawn that registers the pawn before it looks at the cell
placePawnRegistersFirst(H, b, pawn) ==
  LET row == pawn.position.row
      col == pawn.position.col
  IN IF row < 0 \/ row >= b.height \/ col < 0 \/ col >= b.width
     THEN [err |-> "OutOfBounds", heap |-> H]
     ELSE IF Cell(H, b, row, col) /= Null
     THEN [err |-> "OccupiedSquare", heap |-> SetPawn(H, b, pawn.id, pawn)]
     ELSE [err |-> "none",
           heap |-> SetCell(SetPawn(H, b, pawn.id, pawn), b, row, col, pawn.id)]

placePawn(H, b, pawn) ==
  LET row == pawn.position.row
      col == pawn.position.col
  IN IF row < 0 \/ row >= b.height \/ col < 0 \/ col >= b.width
     THEN [err |-> "OutOfBounds", heap |-> H]
     ELSE IF Cell(H, b, row, col) /= Null
     THEN [err |-> "OccupiedSquare", heap |-> H]
     ELSE [err |-> "none",
           heap |-> SetCell(SetPawn(H, b, pawn.id, pawn), b, row, col, pawn.id)]

(***************************************************************************)
(* getPawnAllowedMoves (src/index.js:103-147): the sequence `moves`.       *)
(***************************************************************************)
\* src/index.js:108
\* a variant of direction that sends every color up the rows
directionAlwaysUp(pawn) == 1

direction(pawn) == IF pawn.color = "white" THEN 1 ELSE -1

\* a variant of ForwardMoves that offers the two-step cell to a pawn that has moved
ForwardMovesIgnoringHasMoved(pawn, H, b) ==
  LET row == pawn.position.row
      col == pawn.position.col
      forwardRow == row + direction(pawn)
      twoForwardRow == row + 2 * direction(pawn)
  IN IF isValidPosition(b, forwardRow, col) /\ Cell(H, b, forwardRow, col) = Null
     THEN <<Pos(forwardRow, col)>> \o
          (IF /\ isValidPosition(b, twoForwardRow, col)
              /\ Cell(H, b, twoForwardRow, col) = Null
           THEN <<Pos(twoForwardRow, col)>>
           ELSE <<>>)
     ELSE <<>>

\* a variant of ForwardMoves that tests the two-step cell whether or not the
\* one-step cell is free
ForwardMovesJumping(pawn, H, b) ==
  LET row == pawn.position.row
      col == pawn.position.col
      forwardRow == row + direction(pawn)
      twoForwardRow == row + 2 * direction(pawn)
  IN (IF isValidPosition(b, forwardRow, col) /\ Cell(H, b, forwardRow, col) = Null
      THEN <<Pos(forwardRow, col)>>
      ELSE <<>>) \o
     (IF /\ ~pawn.hasMoved
         /\ isValidPosition(b, twoForwardRow, col)
         /\ Cell(H, b, twoForwardRow, col) = Null
      THEN <<Pos(twoForwardRow, col)>>
      ELSE <<>>)

\* a variant of ForwardMoves that never offers the two-step cell
ForwardMovesOneStep(pawn, H, b) ==
  LET row == pawn.position.row
      col == pawn.position.col
      forwardRow == row + direction(pawn)
  IN IF isValidPosition(b, forwardRow, col) /\ Cell(H, b, forwardRow, col) = Null
     THEN <<Pos(forwardRow, col)>>
     ELSE <<>>

\* src/index.js:111-127: one step forward, then two steps forward
ForwardMoves(pawn, H, b) ==
  LET row == pawn.position.row
      col == pawn.position.col
      forwardRow == row + direction(pawn)
      twoForwardRow == row + 2 * direction(pawn)
  IN IF isValidPosition(b, forwardRow, col) /\ Cell(H, b, forwardRow, col) = Null
     THEN <<Pos(forwardRow, col)>> \o
          (IF /\ ~pawn.hasMoved
              /\ isValidPosition(b, twoForwardRow, col)
              /\ Cell(H, b, twoForwardRow, col) = Null
           THEN <<Pos(twoForwardRow, col)>>
           ELSE <<>>)
     ELSE <<>>

\* a variant of CaptureMove that does not compare the colors
CaptureMoveAnyColor(pawn, H, b, c) ==
  LET forwardRow == pawn.position.row + direction(pawn)
  IN IF ~isValidPosition(b, forwardRow, c) THEN <<>>
     ELSE LET targetId == Cell(H, b, forwardRow, c)
          IN IF ~Truthy(targetId) THEN <<>>
             ELSE IF ~HasPawn(H, b, targetId) THEN <<>>
             ELSE <<Pos(forwardRow, c)>>

\* src/index.js:132-143: one iteration of the loop over captureCols
CaptureMove(pawn, H, b, c) ==
  LET forwardRow == pawn.position.row + direction(pawn)
  IN IF ~isValidPosition(b, forwardRow, c) THEN <<>>
     ELSE LET targetId == Cell(H, b, forwardRow, c)
          IN IF ~Truthy(targetId) THEN <<>>
             ELSE IF ~HasPawn(H, b, targetId) THEN <<>>
             ELSE IF PawnsOf(H, b)[targetId].color /= pawn.color
                  THEN <<Pos(forwardRow, c)>>
                  ELSE <<>>

\* a variant of getPawnAllowedMoves that tries the captures first
getPawnAllowedMovesCapturesFirst(pawn, H, b) ==
  LET col == pawn.position.col
  IN CaptureMove(pawn, H, b, col - 1)
       \o CaptureMove(pawn, H, b, col + 1)
       \o ForwardMoves(pawn, H, b)

getPawnAllowedMoves(pawn, H, b) ==
  LET col == pawn.position.col
  IN ForwardMoves(pawn, H, b)
       \o CaptureMove(pawn, H, b, col - 1)
       \o CaptureMove(pawn, H, b, col + 1)

(***************************************************************************)
(* movePawn (src/index.js:150-209).                                        *)
(***************************************************************************)
\* a variant of CloneRegistry: `pawns: board.pawns`, the registry object shared
CloneRegistryShared(H, b, a) ==
  [pawns |-> b.pawns, heap |-> H]

\* src/index.js:176: Object.assign({}, board.pawns), the new object at address a
CloneRegistry(H, b, a) ==
  [pawns |-> a, heap |-> [H EXCEPT !.regs = Put(@, a, PawnsOf(H, b))]]

\* the addresses of the rows of a grid allocated at address a
RowAddrs(a, height) == [r \in 0..(height - 1) |-> <<a, r>>]

RECURSIVE CopyRows(_, _, _, _)
\* row.slice() for the rows r, r+1, ... of the grid
CopyRows(R, b, a, r) ==
  IF r >= b.height THEN R
  ELSE CopyRows(Put(R, <<a, r>>, R[b.grid[r]]), b, a, r + 1)

\* a variant of CloneGrid: `grid: board.grid.slice()`, the row arrays shared
CloneGridSharedRows(H, b, a) ==
  [grid |-> b.grid, heap |-> H]

\* src/index.js:177-179: board.grid.map(row => row.slice()), the new rows at address a
CloneGrid(H, b, a) ==
  [grid |-> RowAddrs(a, b.height), heap |-> [H EXCEPT !.rows = CopyRows(@, b, a, 0)]]

\* a variant of isLegal that compares the rows only
isLegalRowOnly(legalMoves, target) ==
  \E i \in DOMAIN legalMoves : legalMoves[i].row = target.row

\* src/index.js:157-159: legalMoves.some(...)
isLegal(legalMoves, target) ==
  \E i \in DOMAIN legalMoves :
     legalMoves[i].row = target.row /\ legalMoves[i].col = target.col

\* a variant of Capture that leaves the captured pawn in the registry
CaptureSkipped(H, b, targetId) == H

\* src/index.js:189-192: `if (targetId) delete newBoard.pawns[targetId]`
Capture(H, b, targetId) ==
  IF Truthy(targetId) THEN DeletePawn(H, b, targetId) ELSE H

\* a variant of UpdatedPawn that keeps the position the pawn had
UpdatedPawnAtSource(pawn, target) ==
  [id |-> pawn.id, color |-> pawn.color,
   position |-> pawn.position,
   hasMoved |-> TRUE]

\* a variant of UpdatedPawn that keeps the hasMoved flag the pawn had
UpdatedPawnNotMarked(pawn, target) ==
  [id |-> pawn.id, color |-> pawn.color,
   position |-> Pos(target.row, target.col),
   hasMoved |-> pawn.hasMoved]

\* src/index.js:195-200: the record `updatedPawn`
UpdatedPawn(pawn, target) ==
  [id |-> pawn.id, color |-> pawn.color,
   position |-> Pos(target.row, target.col),
   hasMoved |-> TRUE]

\* the result of movePawn(board, pawnId, target); the clone is allocated at address a
movePawn(H, b, pawnId, target, a) ==
  IF ~HasPawn(H, b, pawnId)
  THEN [err |-> "PawnNotFound", heap |-> H, board |-> b, pawn |-> NoPawn]
  ELSE
  LET pawn == PawnsOf(H, b)[pawnId]
      legalMoves == getPawnAllowedMoves(pawn, H, b)
  IN IF ~isLegal(legalMoves, target)
     THEN [err |-> "IllegalMove", heap |-> H, board |-> b, pawn |-> NoPawn]
     ELSE
     LET creg == CloneRegistry(H, b, a)
         cgrid == CloneGrid(creg.heap, b, a)
         newBoard == [width |-> b.width, height |-> b.height,
                      pawns |-> creg.pawns, grid |-> cgrid.grid]
         oldRow == pawn.position.row
         oldCol == pawn.position.col
         \* clear old square
         H1 == SetCell(cgrid.heap, newBoard, oldRow, oldCol, Null)
         \* capture if needed
         targetId == Cell(H1, newBoard, target.row, target.col)
         H2 == Capture(H1, newBoard, targetId)
         updatedPawn == UpdatedPawn(pawn, target)
         H3 == SetPawn(H2, newBoard, pawn.id, updatedPawn)
         H4 == SetCell(H3, newBoard, target.row, target.col, pawn.id)
     IN [err |-> "none", heap |-> H4, board |-> newBoard, pawn |-> updatedPawn]

(***************************************************************************)
(* addPawn (src/index.js:212-234) and removePawn (src/index.js:237-246).   *)
(***************************************************************************)
\* src/index.js:221: color[0].toUpperCase()
Prefix(color) == CASE color = "white" -> "W" [] color = "black" -> "B"

\* src/index.js:220-225: the prefix, Date.now() = t and the digits r of Math.random()
NewId(color, t, r) == <<Prefix(color), t, r>>

addPawn(H, b, color, row, col, t, r) ==
  IF ~isValidPosition(b, row, col)
  THEN [err |-> "OutOfBounds", heap |-> H, pawn |-> NoPawn]
  ELSE IF Cell(H, b, row, col) /= Null
  THEN [err |-> "OccupiedSquare", heap |-> H, pawn |-> NoPawn]
  ELSE
  LET pawn == [id |-> NewId(color, t, r), color |-> color,
               position |-> Pos(row, col), hasMoved |-> FALSE]
      placed == placePawn(H, b, pawn)
  IN [err |-> placed.err, heap |-> placed.heap,
      pawn |-> IF placed.err = "none" THEN pawn ELSE NoPawn]

\* a variant of removePawn that deletes the registry entry and leaves the cell
removePawnKeepsCell(H, b, pawnId) ==
  IF ~HasPawn(H, b, pawnId) THEN H
  ELSE DeletePawn(H, b, pawnId)

removePawn(H, b, pawnId) ==
  IF ~HasPawn(H, b, pawnId) THEN H
  ELSE LET pawn == PawnsOf(H, b)[pawnId]
           row == pawn.position.row
           col == pawn.position.col
       IN DeletePawn(SetCell(H, b, row, col, Null), b, pawnId)

\* src/index.js:11-18: createEmptyBoard(width, height), the new objects at address a
createEmptyBoard(H, width, height, a) ==
  LET grid == createEmptyGrid(width, height)
  IN [board |-> [width |-> width, height |-> height,
                 pawns |-> a, grid |-> RowAddrs(a, height)],
      heap |-> [regs |-> Put(H.regs, a, <<>>),
                rows |-> [x \in (DOMAIN H.rows) \cup {<<a, r>> : r \in 0..(height - 1)} |->
                            IF x[1] = a THEN grid[x[2]] ELSE H.rows[x]]]]

\* the objects allocated at address a become unreachable
Drop(H, a) ==
  [regs |-> [x \in (DOMAIN H.regs) \ {a} |-> H.regs[x]],
   rows |-> [x \in {y \in DOMAIN H.rows : y[1] /= a} |-> H.rows[x]]]

(***************************************************************************)
(* The inputs of the calls.                                                *)
(***************************************************************************)
Clock == 1..MaxClock
Rand == 1..MaxRand
AddIds == {NewId(color, t, r) : color \in Colors, t \in Clock, r \in Rand}
AllIds == PlaceIds \cup AddIds
\* every cell of the board, and one position beyond each of its four edges
Positions(b) ==
  {Pos(r, c) : r \in 0..(b.height - 1), c \in 0..(b.width - 1)}
    \cup {Pos(-1, 0), Pos(b.height, 0), Pos(0, -1), Pos(0, b.width)}
\* the ids of the registry of a board, and one id that is not in it
IdsFor(H, b) ==
  (DOMAIN PawnsOf(H, b)) \cup {CHOOSE x \in AllIds : ~HasPawn(H, b, x)}

\* a call: the operation, the slot of its board, the slot of the returned board,
\* the arguments, the error thrown ("none" when it returns), the pawn returned
\* and the positions returned
Call(op, slot, dst, arg, err, ret, moves) ==
  [op |-> op, slot |-> slot, dst |-> dst, arg |-> arg, err |-> err, ret |-> ret,
   moves |-> moves]

Arg(id, color, position, hasMoved) ==
  [id |-> id, color |-> color, position |-> position, hasMoved |-> hasMoved]

(***************************************************************************)
(* The state after construction: the caller holds one empty board.         *)
(***************************************************************************)
Init ==
  LET made == createEmptyBoard([regs |-> <<>>, rows |-> <<>>], BoardWidth, BoardHeight, 1)
  IN /\ boards = [s \in {1} |-> made.board]
     /\ regs = made.heap.regs
     /\ rows = made.heap.rows
     /\ last = Call("createEmptyBoard", 1, 1, NoPawn, "none", NoPawn, <<>>)
     /\ calls = 0
     /\ frames = <<>>

(***************************************************************************)
(* One action per call of the public operations.                           *)
(***************************************************************************)
PlacePawn(s, pawn) ==
  /\ calls < MaxCalls
  /\ calls' = calls + 1
  /\ UNCHANGED frames
  /\ s \in DOMAIN boards
  /\ LET res == placePawn(Heap, boards[s], pawn)
     IN /\ regs' = res.heap.regs
        /\ rows' = res.heap.rows
        /\ last' = Call("placePawn", s, s, pawn, res.err, NoPawn, <<>>)
  /\ UNCHANGED boards

AddPawn(s, color, position, t, r) ==
  /\ calls < MaxCalls
  /\ calls' = calls + 1
  /\ UNCHANGED frames
  /\ s \in DOMAIN boards
  /\ LET res == addPawn(Heap, boards[s], color, position.row, position.col, t, r)
     IN /\ regs' = res.heap.regs
        /\ rows' = res.heap.rows
        /\ last' = Call("addPawn", s, s, Arg(Null, color, position, FALSE),
                        res.err, res.pawn, <<>>)
  /\ UNCHANGED boards

RemovePawn(s, pawnId) ==
  /\ calls < MaxCalls
  /\ calls' = calls + 1
  /\ UNCHANGED frames
  /\ s \in DOMAIN boards
  /\ LET H == removePawn(Heap, boards[s], pawnId)
     IN /\ regs' = H.regs
        /\ rows' = H.rows
        /\ last' = Call("removePawn", s, s, Arg(pawnId, "none", Pos(-1, -1), FALSE),
                        "none", NoPawn, <<>>)
  /\ UNCHANGED boards

\* movePawn on the board of slot s; the caller keeps the returned board in slot
\* dst, or drops it (dst = Scratch)
MovePawn(s, pawnId, target, dst) ==
  /\ calls < MaxCalls
  /\ calls' = calls + 1
  /\ UNCHANGED frames
  /\ s \in DOMAIN boards
  /\ dst /= s
  /\ LET res == movePawn(Heap, boards[s], pawnId, target, dst)
         kept == res.err = "none" /\ dst /= Scratch
         H == IF kept THEN res.heap ELSE Drop(res.heap, Scratch)
     IN /\ regs' = H.regs
        /\ rows' = H.rows
        /\ boards' = IF kept THEN Put(boards, dst, res.board) ELSE boards
        /\ last' = Call("movePawn", s, dst, Arg(pawnId, "none", target, FALSE),
                        res.err, res.pawn, <<>>)

Next ==
  \/ \E s \in DOMAIN boards, id \in PlaceIds, color \in Colors, hasMoved \in BOOLEAN :
       \E position \in Positions(boards[s]) :
          PlacePawn(s, Arg(id, color, position, hasMoved))
  \/ \E s \in DOMAIN boards, color \in Colors, t \in Clock, r \in Rand :
       \E position \in Positions(boards[s]) :
          AddPawn(s, color, position, t, r)
  \/ \E s \in DOMAIN boards :
       \E pawnId \in IdsFor(Heap, boards[s]) : RemovePawn(s, pawnId)
  \/ \E s \in DOMAIN boards, dst \in Slots \cup {Scratch} :
       \E pawnId \in IdsFor(Heap, boards[s]), target \in Positions(boards[s]) :
          MovePawn(s, pawnId, target, dst)

Spec == Init /\ [][Next]_vars

(***************************************************************************)
(* The rule engine on its own: a caller sets a board up with placePawn,    *)
(* numbering the pawns as createInitialBoard does (src/index.js:44-55),    *)
(* and asks for the legal moves of the pawns on it.                        *)
(***************************************************************************)
InitMoves ==
  LET made == createEmptyBoard([regs |-> <<>>, rows |-> <<>>], MovesWidth, MovesHeight, 1)
  IN /\ boards = [s \in {1} |-> made.board]
     /\ regs = made.heap.regs
     /\ rows = made.heap.rows
     /\ last = Call("createEmptyBoard", 1, 1, NoPawn, "none", NoPawn, <<>>)
     /\ calls = 0
     /\ frames = <<>>

\* the cells of a board
Cells(b) == {Pos(r, c) : r \in 0..(b.height - 1), c \in 0..(b.width - 1)}

SetupPawn(color, position, hasMoved) ==
  /\ Cardinality(DOMAIN PawnsOf(Heap, boards[1])) < MaxPawns
  /\ LET id == <<Prefix(color), Cardinality(DOMAIN PawnsOf(Heap, boards[1])) + 1>>
         pawn == Arg(id, color, position, hasMoved)
         res == placePawn(Heap, boards[1], pawn)
     IN /\ regs' = res.heap.regs
        /\ rows' = res.heap.rows
        /\ last' = Call("placePawn", 1, 1, pawn, res.err, NoPawn, <<>>)
  /\ UNCHANGED <<boards, calls, frames>>

\* getPawnAllowedMoves(board.pawns[pawnId], board)
GetMoves(pawnId) ==
  /\ HasPawn(Heap, boards[1], pawnId)
  /\ LET pawn == PawnsOf(Heap, boards[1])[pawnId]
     IN last' = Call("getPawnAllowedMoves", 1, 1, pawn, "none", NoPawn,
                     getPawnAllowedMoves(pawn, Heap, boards[1]))
  /\ UNCHANGED <<boards, regs, rows, calls, frames>>

NextMoves ==
  \/ \E color \in Colors, hasMoved \in BOOLEAN :
       \E position \in Cells(boards[1]) : SetupPawn(color, position, hasMoved)
  \/ \E pawnId \in DOMAIN PawnsOf(Heap, boards[1]) : GetMoves(pawnId)

SpecMoves == InitMoves /\ [][NextMoves]_vars

(***************************************************************************)
(* createInitialBoard (src/index.js:42-89) and the script that follows the *)
(* functions (src/index.js:267-298).                                       *)
(***************************************************************************)
InitialWidth == 8     \* createEmptyBoard(8, 8)
InitialHeight == 8    \* createEmptyBoard(8, 8)
PawnsPerRow == 8      \* for (let i = 0; i < 8; i++)

\* a variant of InitialPawn that marks the pawn as moved
InitialPawnMoved(prefix, color, id, row, col) ==
  [id |-> <<prefix, id>>, color |-> color, position |-> Pos(row, col),
   hasMoved |-> TRUE]

\* src/index.js:48-53, 58-63, 69-74, 79-84: the pawn literal; the id is the
\* prefix followed by the counter
InitialPawn(prefix, color, id, row, col) ==
  [id |-> <<prefix, id>>, color |-> color, position |-> Pos(row, col),
   hasMoved |-> FALSE]

\* placePawn(board, pawn); id = id + 1, unless an earlier placePawn has thrown
PlaceNext(st, b, prefix, color, row, col) ==
  IF st.err /= "none" THEN st
  ELSE LET placed == placePawn(st.heap, b, InitialPawn(prefix, color, st.id, row, col))
       IN [err |-> placed.err, heap |-> placed.heap,
           id |-> IF placed.err = "none" THEN st.id + 1 ELSE st.id]

RECURSIVE PlaceRows(_, _, _, _, _, _, _)
\* src/index.js:47-65 and 68-86: the iterations i, i+1, ... of a loop that
\* places one pawn on rowA and one on rowB of column i
PlaceRows(st, b, prefix, color, rowA, rowB, i) ==
  IF i >= PawnsPerRow THEN st
  ELSE PlaceRows(PlaceNext(PlaceNext(st, b, prefix, color, rowA, i),
                           b, prefix, color, rowB, i),
                 b, prefix, color, rowA, rowB, i + 1)

\* the result of createInitialBoard(); the board is allocated at address a
createInitialBoard(H, a) ==
  LET made == createEmptyBoard(H, InitialWidth, InitialHeight, a)
      start == [err |-> "none", heap |-> made.heap, id |-> 1]
      white == PlaceRows(start, made.board, "W", "white", 0, 1, 0)
      black == PlaceRows(white, made.board, "B", "black", 6, 7, 0)
  IN [err |-> black.err, heap |-> black.heap, board |-> made.board]

\* src/index.js:272-274: Object.keys(board.pawns).find(...), the first white
\* pawn in the order in which the ids were inserted, which for the ids of
\* createInitialBoard is the order of the counter; EmptyId stands for undefined
someWhitePawnId(H, b) ==
  LET white == {id \in DOMAIN PawnsOf(H, b) : PawnsOf(H, b)[id].color = "white"}
  IN IF white = {} THEN EmptyId
     ELSE CHOOSE id \in white : \A other \in white : id[2] <= other[2]

\* the board the chain of movePawn calls has reached: the one returned by the
\* latest successful movePawn
CurSlot ==
  IF last.op = "movePawn" /\ last.err = "none" THEN last.dst ELSE last.slot

\* the slot that receives the next board of the chain
NextSlot == CHOOSE d \in Slots : d /= CurSlot

\* targets for a movePawn of the chain: the four cells the rule engine looks at
\* for the pawn (src/index.js:111-144), whether or not they are legal
ChainTargets(H, b, pawnId) ==
  IF ~HasPawn(H, b, pawnId) THEN {Pos(0, 0)}
  ELSE LET pawn == PawnsOf(H, b)[pawnId]
           row == pawn.position.row
           col == pawn.position.col
       IN {Pos(row + direction(pawn), col), Pos(row + 2 * direction(pawn), col),
           Pos(row + direction(pawn), col - 1), Pos(row + direction(pawn), col + 1)}

\* ids for a movePawn of the chain: the pawns that stand in the first ChainCols
\* columns, and one id that is not in the registry
ChainIds(H, b) ==
  {id \in DOMAIN PawnsOf(H, b) : PawnsOf(H, b)[id].position.col < ChainCols}
    \cup {CHOOSE x \in AllIds : ~HasPawn(H, b, x)}

InitInitial ==
  LET made == createInitialBoard([regs |-> <<>>, rows |-> <<>>], 1)
  IN /\ boards = [s \in {1} |-> made.board]
     /\ regs = made.heap.regs
     /\ rows = made.heap.rows
     /\ last = Call("createInitialBoard", 1, 1, NoPawn, made.err, NoPawn, <<>>)
     /\ calls = 0
     /\ frames = <<>>

\* the script of src/index.js:267-298 on the board createInitialBoard returned:
\* it picks a white pawn, asks for its moves, makes the first one if there is
\* one (the returned board is printed and dropped), adds a black pawn at (3, 3)
\* and removes it again
Demo(t, r) ==
  /\ last.op = "createInitialBoard"
  /\ LET board == boards[1]
         id == someWhitePawnId(Heap, board)
         pawn == PawnsOf(Heap, board)[id]
         legalMoves == getPawnAllowedMoves(pawn, Heap, board)
         moved == IF Len(legalMoves) > 0
                  THEN movePawn(Heap, board, id, legalMoves[1], Scratch)
                  ELSE [err |-> "none", heap |-> Heap, board |-> board, pawn |-> NoPawn]
         H1 == Drop(moved.heap, Scratch)
         added == addPawn(H1, board, "black", 3, 3, t, r)
         H2 == IF added.err = "none"
               THEN removePawn(added.heap, board, added.pawn.id)
               ELSE added.heap
         err == IF moved.err /= "none" THEN moved.err ELSE added.err
     IN /\ regs' = H2.regs
        /\ rows' = H2.rows
        /\ last' = Call("demo", 1, 1, pawn, err, moved.pawn, legalMoves)
  /\ UNCHANGED <<boards, calls, frames>>

\* the next movePawn of a chain: on the board the chain has reached, the
\* returned board kept in the other slot; calls counts the moves made
ChainMove(pawnId, target) ==
  LET s == CurSlot
      dst == NextSlot
      res == movePawn(Heap, boards[s], pawnId, target, dst)
  IN /\ regs' = res.heap.regs
     /\ rows' = res.heap.rows
     /\ boards' = IF res.err = "none" THEN Put(boards, dst, res.board) ELSE boards
     /\ last' = Call("movePawn", s, dst, Arg(pawnId, "none", target, FALSE),
                     res.err, res.pawn, <<>>)
     /\ calls' = IF res.err = "none" THEN calls + 1 ELSE calls
     /\ UNCHANGED frames

NextInitial ==
  \/ \E pawnId \in DOMAIN PawnsOf(Heap, boards[1]) : calls = 0 /\ GetMoves(pawnId)
  \/ \E t \in Clock, r \in Rand : Demo(t, r)
  \/ \E pawnId \in ChainIds(Heap, boards[CurSlot]) :
       \E target \in ChainTargets(Heap, boards[CurSlot], pawnId) :
         calls < MaxCalls /\ ChainMove(pawnId, target)

SpecInitial == InitInitial /\ [][NextInitial]_vars

(***************************************************************************)
(* Chains of movePawn calls from a board that placePawn has set up.        *)
(***************************************************************************)
NextChain ==
  \/ \E color \in Colors, hasMoved \in BOOLEAN :
       \E position \in Cells(boards[1]) :
         /\ last.op /= "movePawn"
         /\ Cardinality(DOMAIN PawnsOf(Heap, boards[1])) < ChainPawns
         /\ SetupPawn(color, position, hasMoved)
  \/ \E pawnId \in ChainIds(Heap, boards[CurSlot]) :
       \E target \in ChainTargets(Heap, boards[CurSlot], pawnId) :
         ChainMove(pawnId, target)

SpecChain == Init /\ [][NextChain]_vars

(***************************************************************************)
(* movePawn (src/index.js:150-209) statement by statement, for several     *)
(* calls on the board of slot 1 whose statements interleave.  Each call    *)
(* has a frame: its position pc, its arguments and its local variables.    *)
(***************************************************************************)
Threads == 1..NumThreads

\* src/index.js:173-180: the object literal, the row arrays and the registry
\* of a call are new objects; those of thread t are allocated at this address
Address(t) == Scratch + t

Frame(pc, pawnId, target, pawn, newBoard, err, ret) ==
  [pc |-> pc, pawnId |-> pawnId, target |-> target, pawn |-> pawn,
   newBoard |-> newBoard, err |-> err, ret |-> ret]

\* frames with the frame of thread t replaced
Goto(t, frame) == frames' = Put(frames, t, frame)

At(t, pc) == t \in DOMAIN frames /\ frames[t].pc = pc

\* the call movePawn(board, pawnId, target) is made by thread t; the threads
\* are numbered in the order of their calls
MovePawnCall(t, pawnId, target) ==
  /\ t \notin DOMAIN frames
  /\ \A u \in Threads : u < t => u \in DOMAIN frames
  /\ Goto(t, Frame("lookup", pawnId, target, NoPawn, boards[1], "none", NoPawn))
  /\ UNCHANGED <<boards, regs, rows, last, calls>>

\* src/index.js:151-154
MovePawnLookup(t) ==
  /\ At(t, "lookup")
  /\ LET f == frames[t]
     IN IF ~HasPawn(Heap, boards[1], f.pawnId)
        THEN Goto(t, [f EXCEPT !.pc = "done", !.err = "PawnNotFound"])
        ELSE Goto(t, [f EXCEPT !.pc = "legal",
                               !.pawn = PawnsOf(Heap, boards[1])[f.pawnId]])
  /\ UNCHANGED <<boards, regs, rows, last, calls>>

\* src/index.js:156-170
MovePawnLegal(t) ==
  /\ At(t, "legal")
  /\ LET f == frames[t]
         legalMoves == getPawnAllowedMoves(f.pawn, Heap, boards[1])
     IN IF ~isLegal(legalMoves, f.target)
        THEN Goto(t, [f EXCEPT !.pc = "done", !.err = "IllegalMove"])
        ELSE Goto(t, [f EXCEPT !.pc = "cloneRegistry"])
  /\ UNCHANGED <<boards, regs, rows, last, calls>>

\* src/index.js:176
MovePawnCloneRegistry(t) ==
  /\ At(t, "cloneRegistry")
  /\ LET f == frames[t]
         creg == CloneRegistry(Heap, boards[1], Address(t))
     IN /\ regs' = creg.heap.regs
        /\ rows' = creg.heap.rows
        /\ Goto(t, [f EXCEPT !.pc = "cloneGrid", !.newBoard.pawns = creg.pawns])
  /\ UNCHANGED <<boards, last, calls>>

\* src/index.js:177-179
MovePawnCloneGrid(t) ==
  /\ At(t, "cloneGrid")
  /\ LET f == frames[t]
         cgrid == CloneGrid(Heap, boards[1], Address(t))
     IN /\ regs' = cgrid.heap.regs
        /\ rows' = cgrid.heap.rows
        /\ Goto(t, [f EXCEPT !.pc = "clear", !.newBoard.grid = cgrid.grid])
  /\ UNCHANGED <<boards, last, calls>>

\* a variant of MovePawnClear that clears the square of `board`, not of `newBoard`
MovePawnClearInPlace(t) ==
  /\ At(t, "clear")
  /\ LET f == frames[t]
         H == SetCell(Heap, boards[1], f.pawn.position.row, f.pawn.position.col, Null)
     IN /\ regs' = H.regs
        /\ rows' = H.rows
        /\ Goto(t, [f EXCEPT !.pc = "capture"])
  /\ UNCHANGED <<boards, last, calls>>

\* src/index.js:182-186
MovePawnClear(t) ==
  /\ At(t, "clear")
  /\ LET f == frames[t]
         H == SetCell(Heap, f.newBoard, f.pawn.position.row, f.pawn.position.col, Null)
     IN /\ regs' = H.regs
        /\ rows' = H.rows
        /\ Goto(t, [f EXCEPT !.pc = "capture"])
  /\ UNCHANGED <<boards, last, calls>>

\* src/index.js:189-192
MovePawnCapture(t) ==
  /\ At(t, "capture")
  /\ LET f == frames[t]
         targetId == Cell(Heap, f.newBoard, f.target.row, f.target.col)
         H == Capture(Heap, f.newBoard, targetId)
     IN /\ regs' = H.regs
        /\ rows' = H.rows
        /\ Goto(t, [f EXCEPT !.pc = "update"])
  /\ UNCHANGED <<boards, last, calls>>

\* src/index.js:195-208
MovePawnUpdate(t) ==
  /\ At(t, "update")
  /\ LET f == frames[t]
         updatedPawn == UpdatedPawn(f.pawn, f.target)
         H3 == SetPawn(Heap, f.newBoard, f.pawn.id, updatedPawn)
         H4 == SetCell(H3, f.newBoard, f.target.row, f.target.col, f.pawn.id)
     IN /\ regs' = H4.regs
        /\ rows' = H4.rows
        /\ Goto(t, [f EXCEPT !.pc = "done", !.ret = updatedPawn])
  /\ UNCHANGED <<boards, last, calls>>

NextConcurrent ==
  \/ \E color \in Colors, position \in Cells(boards[1]) :
       /\ frames = <<>>
       /\ Cardinality(DOMAIN PawnsOf(Heap, boards[1])) < ChainPawns
       /\ SetupPawn(color, position, FALSE)
  \/ \E t \in Threads :
       \E pawnId \in ChainIds(Heap, boards[1]) :
         \E target \in ChainTargets(Heap, boards[1], pawnId) :
           MovePawnCall(t, pawnId, target)
  \/ \E t \in Threads : MovePawnLookup(t)
  \/ \E t \in Threads : MovePawnLegal(t)
  \/ \E t \in Threads : MovePawnCloneRegistry(t)
  \/ \E t \in Threads : MovePawnCloneGrid(t)
  \/ \E t \in Threads : MovePawnClear(t)
  \/ \E t \in Threads : MovePawnCapture(t)
  \/ \E t \in Threads : MovePawnUpdate(t)

SpecConcurrent == Init /\ [][NextConcurrent]_vars

(***************************************************************************)
(* What a caller observes of a board, and the consistency of grid and      *)
(* registry.                                                               *)
(***************************************************************************)
\* the contents of the board of slot s
View(s) ==
  LET b == boards[s]
  IN [width |-> b.width, height |-> b.height,
      pawns |-> regs[b.pawns],
      grid |-> [r \in 0..(b.height - 1) |-> rows[b.grid[r]]]]

InBounds(v, p) ==
  p.row >= 0 /\ p.row < v.height /\ p.col >= 0 /\ p.col < v.width

\* the cells of the board contents v that hold id
CellsHolding(v, id) ==
  {p \in Cells(v) : v.grid[p.row][p.col] = id}

Consistent(v) ==
  /\ \A p \in Cells(v) :
       LET x == v.grid[p.row][p.col]
       IN x /= Null => x \in DOMAIN v.pawns /\ v.pawns[x].position = p
  /\ \A id \in DOMAIN v.pawns :
       LET P == v.pawns[id]
       IN InBounds(v, P.position) /\ v.grid[P.position.row][P.position.col] = P.id
  /\ \A id1, id2 \in DOMAIN v.pawns :
       id1 /= id2 => v.pawns[id1].position /= v.pawns[id2].position

\* the elements of a sequence
Range(seq) == {seq[i] : i \in DOMAIN seq}

(***************************************************************************)
(* The claims.                                                             *)
(***************************************************************************)
IsCall(op) == last.op = op
Succeeded(op) == last.op = op /\ last.err = "none"

\* C1: on every board the caller holds, after any sequence of successful or
\* failed placePawn, addPawn, removePawn and movePawn calls, grid and registry
\* agree: an occupied cell holds the id of a registered pawn positioned there,
\* every registered pawn is in the cell of its position, and no two pawns share
\* a position.
C1_GridRegistryConsistent ==
  \A s \in DOMAIN boards : Consistent(View(s))

\* C2: a successful placePawn on a consistent board, whatever the id of the
\* pawn, leaves the board consistent.
C2_PlacePawnKeepsConsistency ==
  [][\A s \in DOMAIN boards :
       (last'.op = "placePawn" /\ last'.slot = s /\ last'.err = "none"
          /\ Consistent(View(s)))
       => Consistent(View(s))']_vars

\* C3: movePawn, whether it returns or throws, leaves the contents of its input
\* board (width, height, grid, registry) as they were before the call.
C3_MovePawnKeepsInput ==
  [][\A s \in DOMAIN boards :
       (last'.op = "movePawn" /\ last'.slot = s) => View(s)' = View(s)]_vars

\* a movePawn returned a board and the caller kept it next to the input board
C3_Witness ==
  /\ Succeeded("movePawn")
  /\ last.dst \in DOMAIN boards
  /\ View(last.dst) /= View(last.slot)

\* C4: the board returned by movePawn and the board it was made from are
\* independent: a call on one of them (placePawn, addPawn, removePawn, or a
\* further movePawn) leaves the contents of the other as they were.
C4_SnapshotsIndependent ==
  [][\A s, t \in DOMAIN boards :
       (last'.slot = s /\ t /= s /\ t /= last'.dst) => View(t)' = View(t)]_vars

\* an addPawn has succeeded on a board returned by movePawn while the board it
\* was made from is still held
C4_Witness ==
  /\ Succeeded("addPawn")
  /\ last.slot = 2
  /\ 1 \in DOMAIN boards

C6_CaptureRemovesOpponent ==
  [][\A s \in DOMAIN boards, d \in Slots :
       (last'.op = "movePawn" /\ last'.slot = s /\ last'.err = "none"
          /\ last'.dst = d) =>
         LET v == View(s)
             target == last'.arg.position
             mover == v.pawns[last'.arg.id]
             x == v.grid[target.row][target.col]
         IN /\ x \in DOMAIN v.pawns => v.pawns[x].color /= mover.color
            /\ (Consistent(v) /\ x \in DOMAIN v.pawns) =>
                 /\ x \notin DOMAIN View(d)'.pawns
                 /\ CellsHolding(View(d)', x) = {}]_vars

\* a movePawn has captured: the target cell of the input board, which is
\* consistent, holds a pawn, and the returned board is held
C6_Witness ==
  /\ Succeeded("movePawn")
  /\ last.dst \in DOMAIN boards
  /\ Consistent(View(last.slot))
  /\ View(last.slot).grid[last.arg.position.row][last.arg.position.col]
       \in DOMAIN View(last.slot).pawns

\* C7: on a consistent board every position getPawnAllowedMoves returns is in
\* bounds; one in the pawn's column is an empty cell and one in another column
\* holds a pawn of another color.
C7_MovesInBoundsAndDiagonalCaptures ==
  (IsCall("getPawnAllowedMoves") /\ Consistent(View(last.slot))) =>
    LET v == View(last.slot)
        pawn == last.arg
    IN \A p \in Range(last.moves) :
         /\ InBounds(v, p)
         /\ p.col = pawn.position.col => v.grid[p.row][p.col] = Null
         /\ p.col /= pawn.position.col =>
              LET x == v.grid[p.row][p.col]
              IN /\ x \in DOMAIN v.pawns
                 /\ v.pawns[x].color /= pawn.color

\* the rule engine returned a forward move and a capture
C7_Witness ==
  /\ IsCall("getPawnAllowedMoves")
  /\ Consistent(View(last.slot))
  /\ \E p, q \in Range(last.moves) :
       p.col = last.arg.position.col /\ q.col /= last.arg.position.col

\* the cell `steps` rows ahead of the pawn in its direction, `side` columns aside
Ahead(pawn, steps, side) ==
  Pos(pawn.position.row + steps * (IF pawn.color = "white" THEN 1 ELSE -1),
      pawn.position.col + side)

EmptyCell(v, p) == InBounds(v, p) /\ v.grid[p.row][p.col] = Null

\* C8: a pawn with hasMoved = false whose one-step and two-step forward cells
\* are in bounds and empty is offered both; a pawn with hasMoved = true is never
\* offered the two-step cell.
C8_TwoStepOnlyBeforeFirstMove ==
  IsCall("getPawnAllowedMoves") =>
    LET v == View(last.slot)
        pawn == last.arg
        one == Ahead(pawn, 1, 0)
        two == Ahead(pawn, 2, 0)
    IN /\ (~pawn.hasMoved /\ EmptyCell(v, one) /\ EmptyCell(v, two)) =>
            (one \in Range(last.moves) /\ two \in Range(last.moves))
       /\ pawn.hasMoved => two \notin Range(last.moves)

\* a pawn that has not moved was offered both forward cells
C8_Witness ==
  /\ IsCall("getPawnAllowedMoves")
  /\ ~last.arg.hasMoved
  /\ Ahead(last.arg, 1, 0) \in Range(last.moves)
  /\ Ahead(last.arg, 2, 0) \in Range(last.moves)

\* C9: the positions come in the order forward-one, forward-two, diagonal at
\* col-1, diagonal at col+1, none twice, so that forward-one is first whenever
\* it is returned.
C9_MovesInFixedOrder ==
  IsCall("getPawnAllowedMoves") =>
    LET pawn == last.arg
        order == <<Ahead(pawn, 1, 0), Ahead(pawn, 2, 0),
                   Ahead(pawn, 1, -1), Ahead(pawn, 1, 1)>>
        Returned(p) == p \in Range(last.moves)
    IN /\ last.moves = SelectSeq(order, Returned)
       /\ Returned(Ahead(pawn, 1, 0)) => last.moves[1] = Ahead(pawn, 1, 0)

\* all four destinations were returned
C9_Witness ==
  /\ IsCall("getPawnAllowedMoves")
  /\ Len(last.moves) = 4

\* C10: a successful addPawn returns a pawn whose id was not in the registry,
\* with hasMoved = false and the position asked for; the registry has one pawn
\* more, and every pawn registered before and every other cell is unchanged.
C10_AddPawnAddsOneFreshPawn ==
  [][\A s \in DOMAIN boards :
       (last'.op = "addPawn" /\ last'.slot = s /\ last'.err = "none") =>
         LET v == View(s)
             pawn == last'.ret
         IN /\ pawn.id \notin DOMAIN v.pawns
            /\ pawn.hasMoved = FALSE
            /\ pawn.position = last'.arg.position
            /\ Cardinality(DOMAIN View(s)'.pawns) = Cardinality(DOMAIN v.pawns) + 1
            /\ \A id \in DOMAIN v.pawns :
                 id \in DOMAIN View(s)'.pawns /\ View(s)'.pawns[id] = v.pawns[id]
            /\ \A p \in Cells(v) \ {pawn.position} :
                 View(s)'.grid[p.row][p.col] = v.grid[p.row][p.col]]_vars

\* C11: placePawn and addPawn fail when the position is outside the board
\* (OutOfBounds) and when the target cell already holds an occupant
\* (OccupiedSquare), and a failed call leaves the grid and the registry of its
\* board, and every other object, exactly as they were.
C11_FailedPlacementChangesNothing ==
  [][\A s \in DOMAIN boards :
       (last'.op \in {"placePawn", "addPawn"} /\ last'.slot = s) =>
         LET v == View(s)
             p == last'.arg.position
         IN /\ ~InBounds(v, p) => last'.err = "OutOfBounds"
            /\ (InBounds(v, p) /\ v.grid[p.row][p.col] /= Null) =>
                 last'.err = "OccupiedSquare"
            /\ (InBounds(v, p) /\ v.grid[p.row][p.col] = Null) =>
                 last'.err = "none"
            /\ last'.err /= "none" =>
                 /\ View(s)' = v
                 /\ regs' = regs
                 /\ rows' = rows
                 /\ boards' = boards]_vars

\* a placePawn call failed on an occupied cell of a board that holds a pawn
C11_Witness ==
  /\ IsCall("placePawn")
  /\ last.err = "OccupiedSquare"
  /\ View(last.slot).pawns /= <<>>

C15_MovePawnFrame ==
  [][\A s \in DOMAIN boards, d \in Slots :
       (last'.op = "movePawn" /\ last'.slot = s /\ last'.err = "none"
          /\ last'.dst = d) =>
         LET v == View(s)
             id == last'.arg.id
             target == last'.arg.position
             old == v.pawns[id]
             source == old.position
             occupant == v.grid[target.row][target.col]
         IN /\ id \in DOMAIN View(d)'.pawns
            /\ View(d)'.pawns[id] = [id |-> old.id, color |-> old.color,
                                     position |-> target, hasMoved |-> TRUE]
            /\ last'.ret = View(d)'.pawns[id]
            /\ View(d)'.grid[source.row][source.col] = Null
            /\ View(d)'.grid[target.row][target.col] = old.id
            /\ \A q \in Cells(v) \ {source, target} :
                 View(d)'.grid[q.row][q.col] = v.grid[q.row][q.col]
            /\ \A x \in (DOMAIN v.pawns) \ {id, occupant} :
                 x \in DOMAIN View(d)'.pawns /\ View(d)'.pawns[x] = v.pawns[x]
            /\ View(d)'.width = v.width
            /\ View(d)'.height = v.height
            /\ Cardinality(DOMAIN View(d)'.pawns) =
                 IF occupant /= Null THEN Cardinality(DOMAIN v.pawns) - 1
                 ELSE Cardinality(DOMAIN v.pawns)]_vars

\* a movePawn returned a board with fewer pawns than the board it was given
C15_Witness ==
  /\ Succeeded("movePawn")
  /\ last.dst \in DOMAIN boards
  /\ Cardinality(DOMAIN View(last.dst).pawns)
       < Cardinality(DOMAIN View(last.slot).pawns)
  /\ View(last.dst).pawns[last.arg.id].hasMoved

\* C17: a successful movePawn moves the pawn by exactly 1 or 2 rows in the
\* direction of its color (the row of a white pawn increases, that of any other
\* color decreases), by 2 only if hasMoved was false and the column is
\* unchanged; the column changes by exactly 1 if the move captures a pawn and
\* is unchanged otherwise.
C17_MoveGeometry ==
  [][\A s \in DOMAIN boards, d \in Slots \cup {Scratch} :
       (last'.op = "movePawn" /\ last'.slot = s /\ last'.err = "none"
          /\ last'.dst = d) =>
         LET v == View(s)
             id == last'.arg.id
             target == last'.arg.position
             old == v.pawns[id]
             rowsAhead == IF old.color = "white"
                          THEN target.row - old.position.row
                          ELSE old.position.row - target.row
             sideways == target.col - old.position.col
             captures == v.grid[target.row][target.col] /= Null
         IN /\ rowsAhead \in {1, 2}
            /\ rowsAhead = 2 => (~old.hasMoved /\ sideways = 0)
            /\ captures => sideways \in {-1, 1}
            /\ ~captures => sideways = 0
            /\ d \in Slots =>
                 (captures <=>
                    \E x \in (DOMAIN v.pawns) \ {id} : x \notin DOMAIN View(d)'.pawns)]_vars

\* a pawn that is not white has moved two rows down its column
C17_Witness ==
  /\ Succeeded("movePawn")
  /\ last.ret.color /= "white"
  /\ last.dst \in DOMAIN boards
  /\ View(last.slot).pawns[last.arg.id].position.row = last.ret.position.row + 2

\* C16: the two-step position is never returned when the one-step cell is
\* occupied, even if the pawn has hasMoved = false and the two-step cell is
\* empty.
C16_NoJumpOverOccupiedCell ==
  IsCall("getPawnAllowedMoves") =>
    LET v == View(last.slot)
        pawn == last.arg
        one == Ahead(pawn, 1, 0)
    IN (InBounds(v, one) /\ v.grid[one.row][one.col] /= Null) =>
         /\ Ahead(pawn, 2, 0) \notin Range(last.moves)
         /\ one \notin Range(last.moves)

\* the moves of a pawn that has not moved were asked for while the cell ahead of
\* it was occupied and the cell behind that one was empty
C16_Witness ==
  /\ IsCall("getPawnAllowedMoves")
  /\ ~last.arg.hasMoved
  /\ InBounds(View(last.slot), Ahead(last.arg, 1, 0))
  /\ ~EmptyCell(View(last.slot), Ahead(last.arg, 1, 0))
  /\ EmptyCell(View(last.slot), Ahead(last.arg, 2, 0))

\* the pawns of the board contents v that have the color
PawnsOfColor(v, color) == {id \in DOMAIN v.pawns : v.pawns[id].color = color}

\* every cell of the row holds a pawn of the color that is registered there
RowFilledWith(v, row, color) ==
  \A c \in 0..(v.width - 1) :
     LET x == v.grid[row][c]
     IN /\ x \in DOMAIN v.pawns
        /\ v.pawns[x].color = color
        /\ v.pawns[x].position = Pos(row, c)

RowEmpty(v, row) == \A c \in 0..(v.width - 1) : v.grid[row][c] = Null

\* C13: createInitialBoard returns an 8x8 board with exactly 32 pawns, 16 of
\* each color, every one with hasMoved = false, one color filling rows 0 and 1,
\* the other rows 6 and 7, and rows 2 to 5 empty.
C13_InitialBoard ==
  IsCall("createInitialBoard") =>
    LET v == View(last.dst)
    IN /\ last.err = "none"
       /\ v.width = 8 /\ v.height = 8
       /\ DOMAIN v.grid = 0..7
       /\ \A r \in 0..7 : DOMAIN v.grid[r] = 0..7
       /\ Cardinality(DOMAIN v.pawns) = 32
       /\ \A color \in Colors : Cardinality(PawnsOfColor(v, color)) = 16
       /\ \A id \in DOMAIN v.pawns : v.pawns[id].hasMoved = FALSE
       /\ \E low, high \in Colors :
            /\ low /= high
            /\ RowFilledWith(v, 0, low) /\ RowFilledWith(v, 1, low)
            /\ RowFilledWith(v, 6, high) /\ RowFilledWith(v, 7, high)
       /\ \A r \in 2..5 : RowEmpty(v, r)

\* createInitialBoard has returned a board with a white pawn in the corner
C13_Witness ==
  /\ Succeeded("createInitialBoard")
  /\ View(last.dst).grid[0][0] \in PawnsOfColor(View(last.dst), "white")

\* the pawns as createInitialBoard places them
InitialPawns ==
  LET made == createInitialBoard([regs |-> <<>>, rows |-> <<>>], 1)
  IN PawnsOf(made.heap, made.board)

\* in the board contents v, the pawns with hasMoved = false are those that
\* stand where createInitialBoard placed them
UnmovedIffOnInitialCell(v) ==
  \A id \in DOMAIN v.pawns :
     /\ id \in DOMAIN InitialPawns
     /\ v.pawns[id].hasMoved = FALSE <=> v.pawns[id].position = InitialPawns[id].position

BoardsUnmovedIffOnInitialCell ==
  \A s \in DOMAIN boards : UnmovedIffOnInitialCell(View(s))

\* C19: on every board reached from createInitialBoard by movePawn calls only,
\* a pawn has hasMoved = false exactly when it stands on the cell where
\* createInitialBoard placed it; and a pawn with hasMoved = true has
\* hasMoved = true on the next board of the chain if that board contains it.
C19_HasMovedIffLeftInitialCell ==
  [][/\ BoardsUnmovedIffOnInitialCell
     /\ BoardsUnmovedIffOnInitialCell'
     /\ \A s \in DOMAIN boards, d \in Slots :
          (last'.op = "movePawn" /\ last'.slot = s /\ last'.dst = d
             /\ last'.err = "none") =>
            \A id \in (DOMAIN View(s).pawns) \cap (DOMAIN View(d)'.pawns) :
               View(s).pawns[id].hasMoved => View(d)'.pawns[id].hasMoved]_vars

\* the chain has made three moves, the last one a capture by a pawn that had
\* moved before, and the board it reached holds a pawn on its initial cell
C19_Witness ==
  /\ Succeeded("movePawn")
  /\ calls = 3
  /\ Cardinality(DOMAIN View(last.dst).pawns) = 31
  /\ View(last.slot).pawns[last.arg.id].hasMoved
  /\ View(last.dst).pawns[last.arg.id].hasMoved
  /\ \E id \in DOMAIN View(last.dst).pawns : ~View(last.dst).pawns[id].hasMoved

\* C20: on the board createInitialBoard returns, every pawn on rows 0 and 7 has
\* no legal move, and every pawn on rows 1 and 6 has exactly two, the one-step
\* and then the two-step cell of its column; the script's choice, the first
\* white pawn in placement order, is the pawn of row 0, column 0 and so has no
\* legal move.
C20_InitialMoves ==
  /\ (IsCall("getPawnAllowedMoves") /\ calls = 0) =>
       LET pawn == last.arg
       IN /\ pawn.position.row \in {0, 1, 6, 7}
          /\ pawn.position.row \in {0, 7} => last.moves = <<>>
          /\ pawn.position.row \in {1, 6} =>
               last.moves = <<Ahead(pawn, 1, 0), Ahead(pawn, 2, 0)>>
  /\ IsCall("demo") =>
       /\ last.arg.color = "white"
       /\ last.arg = InitialPawns[last.arg.id]
       /\ \A id \in DOMAIN InitialPawns :
            InitialPawns[id].color = "white" => last.arg.id[2] <= id[2]
       /\ last.arg.position = Pos(0, 0)
       /\ last.moves = <<>>
       /\ last.err = "none"
       /\ View(1).pawns = InitialPawns

\* the script has run on the initial board
C20_Witness ==
  /\ IsCall("demo")
  /\ last.arg.hasMoved = FALSE
  /\ Cardinality(DOMAIN View(1).pawns) = 32

\* the rows between a pawn and the far edge of the board in its direction
RowsToEdge(v, pawn) ==
  IF pawn.color = "white" THEN v.height - 1 - pawn.position.row
  ELSE pawn.position.row

RECURSIVE SumRowsToEdge(_, _)
SumRowsToEdge(v, ids) ==
  IF ids = {} THEN 0
  ELSE LET id == CHOOSE x \in ids : TRUE
       IN RowsToEdge(v, v.pawns[id]) + SumRowsToEdge(v, ids \ {id})

\* the sum, over the pawns of the board contents v, of the rows to the far edge
RowsLeft(v) == SumRowsToEdge(v, DOMAIN v.pawns)

\* C18: a chain of successful movePawn calls, each on the board the previous
\* one returned, is finite: every successful move lowers the sum over the pawns
\* of the rows between the pawn and the far edge in its direction, so the moves
\* made plus that sum never exceed the sum of the first board; and a movePawn
\* of a pawn on its far edge row fails.
C18_ChainsAreBounded ==
  [][\A s \in DOMAIN boards, d \in Slots :
       (last'.op = "movePawn" /\ last'.slot = s /\ last'.dst = d) =>
         LET v == View(s)
             id == last'.arg.id
         IN /\ last'.err = "none" =>
                 /\ Consistent(v) => Consistent(View(d)')
                 /\ RowsLeft(View(d)') >= 0
                 /\ RowsLeft(View(d)') < RowsLeft(v)
                 /\ calls' = calls + 1
                 /\ calls' + RowsLeft(View(d)') <= calls + RowsLeft(v)
            /\ last'.err /= "none" => (calls' = calls /\ boards' = boards)
            /\ (id \in DOMAIN v.pawns /\ RowsToEdge(v, v.pawns[id]) = 0) =>
                 last'.err = "IllegalMove"]_vars

\* a chain has made as many moves as the rows its first board had left, and a
\* movePawn of a pawn on its far edge row has failed on the board it reached
C18_Witness ==
  /\ IsCall("movePawn")
  /\ last.err = "IllegalMove"
  /\ calls >= 3
  /\ RowsLeft(View(CurSlot)) = 0
  /\ Cardinality(DOMAIN View(CurSlot).pawns) >= 2

\* the contents of the board object b in the heap H
Contents(H, b) ==
  [width |-> b.width, height |-> b.height,
   pawns |-> H.regs[b.pawns],
   grid |-> [r \in 0..(b.height - 1) |-> H.rows[b.grid[r]]]]

\* the finished call of thread t threw or returned what movePawn throws or
\* returns when it runs alone on the board of slot 1
SameAsAlone(t) ==
  LET f == frames[t]
      alone == movePawn(Heap, boards[1], f.pawnId, f.target, Address(t))
  IN /\ f.err = alone.err
     /\ f.ret = alone.pawn
     /\ f.err = "none" =>
          Contents(Heap, f.newBoard) = Contents(alone.heap, alone.board)

\* C14: when several movePawn calls are made on the same board and their
\* statements interleave in any order, with no in-place operation on that
\* board meanwhile, no statement of any call changes the board, and each call
\* ends with the result it gives when run alone.
C14_InterleavedMovesIndependent ==
  [][/\ frames' /= <<>> => View(1)' = View(1)
     /\ \A t \in Threads :
          (t \in DOMAIN frames' /\ frames'[t].pc = "done") => SameAsAlone(t)']_vars

\* two calls that both succeed have finished, the second having started before
\* the first one had written to its copy
C14_Witness ==
  /\ DOMAIN frames = Threads
  /\ \A t \in Threads : frames[t].pc = "done" /\ frames[t].err = "none"
  /\ \E t, u \in Threads : t /= u /\ frames[t].target /= frames[u].target

====
